---- MODULE Spec2Model ----
(***************************************************************************)
(* Model of crates/core/src/backend/curse.rs: the conversion               *)
(* From<Package> for Addon (flavor classifier, eligibility filter, newest  *)
(* file per flavor, url and download count) and the paginated fetch        *)
(* get_addons.                                                             *)
(*                                                                         *)
(* Conventions.  Option<T> is a sequence of length at most one: None is    *)
(* <<>> and Some(x) is <<x>>.  The f64 download_count is a fixed-point     *)
(* number of tenths (12349 is 1234.9).  A panic is an outcome of its own:  *)
(* it is neither an Ok nor an Err value.                                   *)
(***************************************************************************)
EXTENDS Integers, Sequences, FiniteSets, TLC

VARIABLES
    \* ---- From<Package> for Addon ----
    package,            \* the Package handed to From (None: no conversion in this run)
    files,              \* the local `files` of From: the index entries that passed the filter
    addon,              \* the Addon that From returned (None before, and after a panic)
    from_pc,            \* "input" | "mapped" | "panicked" | "unused"
    \* ---- get_addons ----
    API_KEY,            \* the compile-time credential, an Option
    pc,                 \* "idle" | "loop" | "awaiting" | "done" | "panicked" | "unused"
    index,              \* local `index`
    number_of_addons,   \* local `number_of_addons`
    addons,             \* local accumulator `addons`
    requests,           \* the requests sent so far, in order
    responses,          \* the responses received so far, in order
    result              \* what the caller of get_addons got

vars == <<package, files, addon, from_pc,
          API_KEY, pc, index, number_of_addons, addons, requests, responses, result>>

mapVars == <<package, files, addon, from_pc>>
fetchVars == <<API_KEY, pc, index, number_of_addons, addons, requests, responses, result>>

----------------------------------------------------------------------------
\* Bounds of the model.

\* Longest latest_files_indexes of an input Package.
MaxFiles == 2
\* File ids of the input index entries are 1..MaxFileId.
MaxFileId == 2
\* Requests one run of get_addons may send before the model stops it.
MaxRequests == 4
\* A page may hold up to page_size + MaxExtra entries (a server that ignores pageSize).
MaxExtra == 1
\* Wire download counts range over -MaxTenths..MaxTenths tenths (and 1234.9 and -3.0).
MaxTenths == 26

----------------------------------------------------------------------------
\* Option<T>

None == <<>>
Some(x) == <<x>>
unwrap_or(o, default) == IF o = None THEN default ELSE o[1]

----------------------------------------------------------------------------
\* Flavor classifier

\* The outcome of a call that panics.
Panic == "panic"

get_flavor_from_game_version_type_id(game_id) ==
    CASE game_id = 73246 -> "ClassicTbc"
      [] game_id = 67408 -> "ClassicEra"
      [] game_id = 517   -> "Retail"
      [] game_id = 73713 -> "ClassicWotlk"
      [] OTHER           -> Panic

\* f.game_version_type_id.unwrap_or(0), classified
flavor_of(f) == get_flavor_from_game_version_type_id(unwrap_or(f.game_version_type_id, 0))

----------------------------------------------------------------------------
\* From<Package> for Addon

\* Mutant of is_eligible: the release type is not looked at.
is_eligible_any_release(f) == unwrap_or(f.game_version_type_id, 0) > 0

\* The closure of the first filter.
is_eligible(f) ==
    (f.release_type = 1 \/ f.release_type = 2)
        /\ unwrap_or(f.game_version_type_id, 0) > 0

\* let files = package.latest_files_indexes.into_iter().filter(..).collect()
eligible_files(p) == SelectSeq(p.latest_files_indexes, is_eligible)

\* Mutant of is_newer: the newest file of the whole package, whatever its flavor.
is_newer_any_flavor(fb, ff, b, f) == b.file_id > f.file_id

\* The body of the `any` closure once both flavors are known:
\* flavor(b) == flavor(f) && b.file_id > f.file_id
is_newer(fb, ff, b, f) == fb = ff /\ b.file_id > f.file_id

\* files_cloned.iter().any(|b| ..) from position i on, in evaluation order:
\* the flavor of b is classified first, then the flavor of f, and `any` stops at
\* the first b for which the closure is true.  "true" | "false" | Panic.
RECURSIVE any_newer(_, _, _)
any_newer(f, files_cloned, i) ==
    IF i > Len(files_cloned) THEN "false"
    ELSE LET b  == files_cloned[i]
             fb == flavor_of(b)
             ff == flavor_of(f)
         IN  IF fb = Panic THEN Panic
             ELSE IF ff = Panic THEN Panic
             ELSE IF is_newer(fb, ff, b, f) THEN "true"
             ELSE any_newer(f, files_cloned, i + 1)

\* The second filter: the entries kept as "newest for their flavor".
newest_files(fs) ==
    LET keep(f) == any_newer(f, fs, 1) = "false"
    IN  SelectSeq(fs, keep)

\* The date used when no File has the id of the chosen index entry.
SentinelDate == "1971-01-01T01:01:01.01Z"

\* package_cloned.latest_files.iter().find(|&p| p.id == file.file_id as i64)
file_date_of(p, file) ==
    LET hits == {i \in 1..Len(p.latest_files) : p.latest_files[i].id = file.file_id}
    IN  IF hits = {} THEN SentinelDate
        ELSE p.latest_files[CHOOSE i \in hits : \A j \in hits : i <= j].file_date

\* The closure of `map`: one Version per kept entry.
to_version(p, file) ==
    [game_version |-> Some(file.game_version),
     flavor       |-> flavor_of(file),
     date         |-> file_date_of(p, file)]

\* From panics exactly when some call of the classifier does.
from_panics(p) ==
    LET fs == eligible_files(p)
    IN  \E i \in 1..Len(fs) : any_newer(fs[i], fs, 1) = Panic

versions_of(p) ==
    LET kept == newest_files(eligible_files(p))
    IN  [i \in 1..Len(kept) |-> to_version(p, kept[i])]

BaseUrl == "https://www.curseforge.com/wow/addons/"

\* Mutant of resolve_url: the slug is left out of the fallback.
resolve_url_no_slug(website_url, slug) == unwrap_or(website_url, BaseUrl)

\* package.links.website_url.unwrap_or(format!("https://www.curseforge.com/wow/addons/{}", slug))
resolve_url(website_url, slug) == unwrap_or(website_url, BaseUrl \o slug)

\* Mutant of round: the fraction is cut off.
round_truncating(tenths) ==
    IF tenths >= 0 THEN tenths \div 10 ELSE -((-tenths) \div 10)

\* f64::round: to the nearest integer, halves away from zero.
round(tenths) ==
    IF tenths >= 0 THEN (tenths + 5) \div 10 ELSE -((-tenths + 5) \div 10)

\* `as u64` on an f64: the cast saturates, so a negative value becomes 0.  (The
\* saturation at u64::MAX is beyond the download counts of this model.)
as_u64(r) == IF r < 0 THEN 0 ELSE r

\* The Addon built at the end of From.
From(p) ==
    [id                  |-> p.id,
     name                |-> p.name,
     url                 |-> resolve_url(p.links.website_url, p.slug),
     number_of_downloads |-> as_u64(round(p.download_count)),
     summary             |-> p.summary,
     versions            |-> versions_of(p),
     categories          |-> [i \in 1..Len(p.categories) |-> p.categories[i].name],
     source              |-> "Curse"]

----------------------------------------------------------------------------
\* Input packages of the conversion

ReleaseTypes == {1, 2, 3}
GameVersionTypeIds ==
    {None, Some(0), Some(-1), Some(517), Some(67408), Some(73246), Some(73713), Some(31337)}
GameVersions == <<"9.2.0", "9.2.5", "1.14.3", "2.5.4">>

\* The File records of every input package: two for file id 1 (find takes the
\* first), none for the other file ids.
SomeFiles ==
    <<[id |-> 1, file_date |-> "2022-06-01T10:00:00Z"],
      [id |-> 1, file_date |-> "2022-07-01T10:00:00Z"]>>

BasePackage ==
    [id |-> 1, game_id |-> 1, name |-> "Deadly Boss Mods", slug |-> "my-addon",
     summary |-> "boss timers", download_count |-> 12349,
     links |-> [website_url |-> None],
     latest_files |-> SomeFiles,
     latest_files_indexes |-> <<>>,
     categories |-> <<[name |-> "Combat"], [name |-> "Boss Encounters"]>>]

IndexEntry(i, file_id, release_type, gvt) ==
    [game_version |-> GameVersions[i], file_id |-> file_id, filename |-> "addon.zip",
     release_type |-> release_type, game_version_type_id |-> gvt]

\* What one index entry of an input package is drawn from: file id, release
\* type, game version type id.
EntryChoices == (1..MaxFileId) \X ReleaseTypes \X GameVersionTypeIds

\* A package whose file index is given by the choices c[1], .., c[n].
VersionPackage(c) ==
    [BasePackage EXCEPT !.latest_files_indexes =
        [i \in DOMAIN c |-> IndexEntry(i, c[i][1], c[i][2], c[i][3])]]

WebsiteUrls == {None, Some(""), Some("https://example.org/dbm")}
Slugs == {"my-addon", "dbm"}
DownloadCounts == (-MaxTenths..MaxTenths) \cup {12349, -30}

\* A package with the given website url, slug and download count.
FieldPackage(u, s, d) ==
    [BasePackage EXCEPT !.id = 2, !.links = [website_url |-> u], !.slug = s,
                        !.download_count = d]

----------------------------------------------------------------------------
\* The conversion as a step

FetchUnused ==
    /\ API_KEY = None
    /\ pc = "unused"
    /\ index = 0
    /\ number_of_addons = 0
    /\ addons = <<>>
    /\ requests = <<>>
    /\ responses = <<>>
    /\ result = [kind |-> "none"]

InitMap ==
    /\ \/ \E n \in 0..MaxFiles : \E c \in [1..n -> EntryChoices] :
            package = VersionPackage(c)
       \/ \E u \in WebsiteUrls, s \in Slugs, d \in DownloadCounts :
            package = FieldPackage(u, s, d)
    /\ files = <<>>
    /\ addon = None
    /\ from_pc = "input"
    /\ FetchUnused

\* Addon::from(package)
FromPackage ==
    /\ from_pc = "input"
    /\ files' = eligible_files(package)
    /\ IF from_panics(package)
       THEN /\ from_pc' = "panicked"
            /\ addon' = None
       ELSE /\ from_pc' = "mapped"
            /\ addon' = Some(From(package))
    /\ UNCHANGED <<package, fetchVars>>

NextMap == FromPackage

MapSpec == InitMap /\ [][NextMap]_vars

----------------------------------------------------------------------------
\* get_addons

page_size == 50

\* fn base_endpoint(page_size, index)
base_endpoint(ps, idx) ==
    "https://api.curseforge.com/v1/mods/search?gameId=1&pageSize=" \o ToString(ps)
        \o "&index=" \o ToString(idx)

\* Mutant of build_request: the header is not set.
build_request_no_key(endpoint, api_key) == [uri |-> endpoint, x_api_key |-> None]

\* isahc::Request::builder().uri(endpoint).header("x-api-key", api_key).body(())
build_request(endpoint, api_key) == [uri |-> endpoint, x_api_key |-> Some(api_key)]

\* Mutant of while_cond: the loop runs until a page is empty.
while_nonempty(ps, n) == n > 0

\* while page_size == number_of_addons
while_cond(ps, n) == ps = n

\* Mutant of next_index: the offset advances by the number of entries received.
next_index_by_received(idx, ps, n) == idx + n

\* index += page_size
next_index(idx, ps, n) == idx + ps

\* response.status().is_success()
is_success(status) == status >= 200 /\ status < 300

\* The statuses the server answers with.
Statuses == {200, 403, 500}

\* The kinds of entry a page is made of: an add-on with two files of different
\* flavors, an add-on without files, and an add-on with a file of a game version
\* type id the classifier does not know.
PagePool ==
    <<[BasePackage EXCEPT !.latest_files_indexes =
            <<IndexEntry(1, 1, 1, Some(517)), IndexEntry(2, 2, 2, Some(67408))>>],
      [BasePackage EXCEPT !.links = [website_url |-> Some("https://example.org/dbm")],
                          !.download_count = 4],
      [BasePackage EXCEPT !.latest_files_indexes = <<IndexEntry(1, 1, 1, Some(31337))>>]>>

\* The entries of a page of n entries of kind k, answered to the request at offset idx.
PageData(k, idx, n) == [i \in 1..n |-> [PagePool[k] EXCEPT !.id = idx + i - 1]]

\* What the log keeps of a request that completed.
Response(kind, status, k, n) ==
    [kind |-> kind, status |-> status, entry |-> k, n |-> n, index |-> index]

InitFetch ==
    /\ API_KEY \in {None, Some("secret")}
    /\ pc = "idle"
    /\ index = 0
    /\ number_of_addons = 0
    /\ addons = <<>>
    /\ requests = <<>>
    /\ responses = <<>>
    /\ result = [kind |-> "none"]
    /\ package = None
    /\ files = <<>>
    /\ addon = None
    /\ from_pc = "unused"

\* get_addons up to the loop: the credential is looked at, the locals are set.
Start ==
    /\ pc = "idle"
    /\ IF API_KEY /= None
       THEN /\ index' = 0
            /\ number_of_addons' = page_size
            /\ addons' = <<>>
            /\ pc' = "loop"
            /\ UNCHANGED result
       ELSE /\ pc' = "panicked"
            /\ result' = [kind |-> "Panic", message |-> "API Key not provided"]
            /\ UNCHANGED <<index, number_of_addons, addons>>
    /\ UNCHANGED <<API_KEY, requests, responses, mapVars>>

\* The loop condition holds: the next request is built and sent.
SendRequest ==
    /\ pc = "loop"
    /\ while_cond(page_size, number_of_addons)
    /\ Len(requests) < MaxRequests
    /\ requests' = Append(requests, build_request(base_endpoint(page_size, index), API_KEY[1]))
    /\ pc' = "awaiting"
    /\ UNCHANGED <<API_KEY, index, number_of_addons, addons, responses, result, mapVars>>

\* The loop condition fails: Ok(addons).
Return ==
    /\ pc = "loop"
    /\ ~ while_cond(page_size, number_of_addons)
    /\ result' = [kind |-> "Ok", value |-> addons]
    /\ pc' = "done"
    /\ UNCHANGED <<API_KEY, index, number_of_addons, addons, requests, responses, mapVars>>

\* send_async(..).await? fails: the error is returned.
TransportError ==
    /\ pc = "awaiting"
    /\ responses' = Append(responses, Response("transport_error", 0, 1, 0))
    /\ result' = [kind |-> "Err", error |-> "Transport"]
    /\ pc' = "done"
    /\ UNCHANGED <<API_KEY, index, number_of_addons, addons, requests, mapVars>>

\* The status is not a success: panic!("{}", response.status()).
ReceiveStatusError ==
    /\ pc = "awaiting"
    /\ \E status \in Statuses :
        /\ ~ is_success(status)
        /\ responses' = Append(responses, Response("status_error", status, 1, 0))
        /\ result' = [kind |-> "Panic", message |-> ToString(status)]
    /\ pc' = "panicked"
    /\ UNCHANGED <<API_KEY, index, number_of_addons, addons, requests, mapVars>>

\* The status is a success and response.json::<Packages>().await? fails.
ReceiveUndecodable ==
    /\ pc = "awaiting"
    /\ \E status \in Statuses :
        /\ is_success(status)
        /\ responses' = Append(responses, Response("undecodable", status, 1, 0))
    /\ result' = [kind |-> "Err", error |-> "Decode"]
    /\ pc' = "done"
    /\ UNCHANGED <<API_KEY, index, number_of_addons, addons, requests, mapVars>>

\* The status is a success and the body decodes: every entry is converted, the
\* Addons are appended, number_of_addons and index are updated.
ReceivePage ==
    /\ pc = "awaiting"
    /\ \E status \in Statuses, k \in DOMAIN PagePool, n \in 0..(page_size + MaxExtra) :
        /\ is_success(status)
        /\ responses' = Append(responses, Response("page", status, k, n))
        /\ LET data == PageData(k, index, n)
           IN  IF \E i \in 1..n : from_panics(data[i])
               THEN /\ pc' = "panicked"
                    /\ result' = [kind |-> "Panic", message |-> "Unsupported game id"]
                    /\ UNCHANGED <<index, number_of_addons, addons>>
               ELSE LET partials_addons == [i \in 1..n |-> From(data[i])]
                    IN  /\ addons' = addons \o partials_addons
                        /\ number_of_addons' = Len(partials_addons)
                        /\ index' = next_index(index, page_size, Len(partials_addons))
                        /\ pc' = "loop"
                        /\ UNCHANGED result
    /\ UNCHANGED <<API_KEY, requests, mapVars>>

Init == InitFetch

Next ==
    \/ Start
    \/ SendRequest
    \/ Return
    \/ TransportError
    \/ ReceiveStatusError
    \/ ReceiveUndecodable
    \/ ReceivePage

Spec == Init /\ [][Next]_vars

----------------------------------------------------------------------------
\* Properties of the conversion

\* The index entries and the versions the properties speak about.
Indexes == package.latest_files_indexes
Versions == addon[1].versions

\* Position i of `files` is the newest of its flavor: no other position holds
\* the same flavor with a strictly greater file id.
NewestOfFlavor(i) ==
    ~ \E j \in 1..Len(files) :
        /\ j /= i
        /\ flavor_of(files[j]) = flavor_of(files[i])
        /\ files[j].file_id > files[i].file_id

\* Version v was made from index entry f (the game version of an input entry
\* is unique within its package).
MadeFrom(v, f) == v.game_version = Some(f.game_version) /\ v.flavor = flavor_of(f)

\* C4 (as claimed): the versions of the Addon produced by From have pairwise
\* distinct flavors.
C4_DistinctFlavors ==
    from_pc = "mapped" =>
        \A i, j \in DOMAIN Versions :
            i /= j => Versions[i].flavor /= Versions[j].flavor

\* C5: an eligible entry yields a Version iff no other eligible entry of the
\* same flavor has a strictly greater file id; so every flavor with an eligible
\* entry has a Version, and every Version of a flavor comes from an entry whose
\* file id is the maximum among the eligible entries of that flavor.
C5_GroupwiseArgMax ==
    from_pc = "mapped" =>
        /\ \A i \in 1..Len(files) :
                NewestOfFlavor(i) <=> \E k \in DOMAIN Versions : MadeFrom(Versions[k], files[i])
        /\ Len(Versions) = Cardinality({i \in 1..Len(files) : NewestOfFlavor(i)})
        /\ \A i \in 1..Len(files) :
                \E k \in DOMAIN Versions :
                    /\ Versions[k].flavor = flavor_of(files[i])
                    /\ \E m \in 1..Len(files) :
                            /\ MadeFrom(Versions[k], files[m])
                            /\ files[m].file_id >= files[i].file_id
        /\ \A k \in DOMAIN Versions :
                \E m \in 1..Len(files) :
                    /\ MadeFrom(Versions[k], files[m])
                    /\ \A i \in 1..Len(files) :
                            flavor_of(files[i]) = Versions[k].flavor
                                => files[i].file_id <= files[m].file_id

\* C5 witness: two eligible entries of one flavor with different file ids were
\* converted, and one Version came out.
C5_Witness ==
    /\ from_pc = "mapped"
    /\ Len(files) = 2
    /\ flavor_of(files[1]) = flavor_of(files[2])
    /\ files[1].file_id > files[2].file_id
    /\ Len(Versions) = 1
    /\ MadeFrom(Versions[1], files[1])

\* Eligibility as the claim words it: release type 1 or 2, id present and non-zero.
ClaimedEligible(f) ==
    /\ f.release_type \in {1, 2}
    /\ f.game_version_type_id /= None
    /\ f.game_version_type_id[1] /= 0

\* Eligibility as amended: release type 1 or 2, id present and strictly positive.
AmendedEligible(f) ==
    /\ f.release_type \in {1, 2}
    /\ f.game_version_type_id /= None
    /\ f.game_version_type_id[1] >= 1

\* The package without the entries the amended rule drops.
Stripped == [package EXCEPT !.latest_files_indexes = SelectSeq(Indexes, AmendedEligible)]

\* C6 (as claimed): the entries that take part in version selection are those
\* with release type 1 or 2 and a present, non-zero game version type id.
C6_Original ==
    from_pc \in {"mapped", "panicked"} => files = SelectSeq(Indexes, ClaimedEligible)

\* C6 (amended): the entries that take part are those with release type 1 or 2
\* and a present, strictly positive game version type id; the other entries
\* change neither the outcome (Addon or panic) nor the Addon.
C6_Amended ==
    from_pc \in {"mapped", "panicked"} =>
        /\ files = SelectSeq(Indexes, AmendedEligible)
        /\ from_pc = "panicked" <=> from_panics(Stripped)
        /\ from_pc = "mapped" => addon = Some(From(Stripped))

\* C6 witness: an entry with release type 1 and a negative id was dropped, and
\* the other entry of the package gave the Addon its only Version.
C6_Witness ==
    /\ from_pc = "mapped"
    /\ Len(Indexes) = 2
    /\ Len(files) = 1
    /\ Len(Versions) = 1
    /\ \E i \in 1..2 :
            /\ Indexes[i].release_type = 1
            /\ Indexes[i].game_version_type_id = Some(-1)

\* C7 (as claimed): the url is the website url when that is present and
\* non-empty, and otherwise the base path followed by the slug.
C7_UrlResolution ==
    from_pc = "mapped" =>
        LET w == package.links.website_url
        IN  addon[1].url = IF w /= None /\ w[1] /= "" THEN w[1]
                           ELSE BaseUrl \o package.slug

\* n is an integer nearest to the count of d tenths.
Nearest(n, d) == 10 * n - d <= 5 /\ d - 10 * n <= 5

\* C8: number_of_downloads is the wire count rounded to the nearest integer,
\* 0 when that would be negative, and never negative.
C8_DownloadCount ==
    from_pc = "mapped" =>
        LET n == addon[1].number_of_downloads
            d == package.download_count
        IN  /\ n >= 0
            /\ \/ Nearest(n, d)
               \/ n = 0 /\ d <= -5      \* -0.5 and below round to a negative integer
            /\ d = 12349 => n = 1235
            /\ d = -30 => n = 0

\* C8 witness: a negative wire count was converted to 0.
C8_Witness ==
    /\ from_pc = "mapped"
    /\ package.download_count = -30
    /\ addon[1].number_of_downloads = 0

----------------------------------------------------------------------------
\* Properties of get_addons

\* The sizes of the pages received so far.
PageSizes == [i \in 1..Len(responses) |-> responses[i].n]

LastResponse == responses[Len(responses)]

\* Response r carried a page that was decoded and whose entries all converted.
Converted(r) ==
    /\ r.kind = "page"
    /\ \A i \in 1..r.n : ~ from_panics(PageData(r.entry, r.index, i)[i])

\* The entries received so far, in the order received.
RECURSIVE ReceivedUpTo(_)
ReceivedUpTo(m) ==
    IF m = 0 THEN <<>>
    ELSE ReceivedUpTo(m - 1) \o PageData(responses[m].entry, responses[m].index, responses[m].n)

\* Every response so far was a converted page, all of them full but the last,
\* which is short.
FullPagesThenShort ==
    /\ responses /= <<>>
    /\ \A i \in 1..Len(responses) : Converted(responses[i])
    /\ \A i \in 1..(Len(responses) - 1) : responses[i].n = page_size
    /\ LastResponse.n < page_size

\* C1: when the server answers k full pages and then a short one, get_addons
\* sends exactly k+1 requests, sends no request after the short page, and
\* returns one Addon per entry received: k * page_size plus the size of the
\* short page, each the conversion of its entry.
C1_Pagination ==
    FullPagesThenShort =>
        /\ Len(requests) = Len(responses)
        /\ pc \in {"loop", "done"}
        /\ pc = "loop" => ~ ENABLED SendRequest
        /\ pc = "done" =>
            /\ result.kind = "Ok"
            /\ Len(result.value) = (Len(responses) - 1) * page_size + LastResponse.n
            /\ LET received == ReceivedUpTo(Len(responses))
               IN  result.value = [i \in 1..Len(received) |-> From(received[i])]
        /\ PageSizes = <<50, 50, 37>> /\ pc = "done" => Len(result.value) = 137
        /\ PageSizes = <<50, 50, 50, 0>> /\ pc = "done" => Len(result.value) = 150

\* C1 witness: pages of 50, 50 and 37 entries gave 3 requests and 137 Addons.
C1_Witness ==
    /\ pc = "done"
    /\ PageSizes = <<50, 50, 37>>
    /\ Len(requests) = 3
    /\ result.kind = "Ok"
    /\ Len(result.value) = 137

\* C2 (as claimed): after a decoded page get_addons stops iff the page held
\* strictly fewer than page_size entries: it returns only after a short page,
\* and after a short page it sends no further request.
C2_ShortPageOnly ==
    (responses /= <<>> /\ Converted(LastResponse)) =>
        /\ (pc = "done" /\ result.kind = "Ok") => LastResponse.n < page_size
        /\ LastResponse.n < page_size => (pc \in {"loop", "done"} /\ Len(requests) = Len(responses))

\* C3 (as claimed): a non-success status ends the fetch with an error value
\* (a protocol error) that carries no addons, and no request follows.
C3_FailureIsErrorValue ==
    (responses /= <<>> /\ LastResponse.kind = "status_error") =>
        /\ result.kind = "Err"
        /\ result.error = "Protocol"
        /\ Len(requests) = Len(responses)

\* C9: without a credential get_addons fails with the configuration failure
\* before any request is sent; and every request sent carries the credential.
C9_Credential ==
    /\ API_KEY = None =>
            /\ requests = <<>>
            /\ responses = <<>>
            /\ pc \in {"idle", "panicked"}
            /\ pc = "panicked" => result = [kind |-> "Panic", message |-> "API Key not provided"]
    /\ \A i \in 1..Len(requests) :
            /\ API_KEY /= None
            /\ requests[i].x_api_key = API_KEY

\* C9 witness: the run without a credential has failed.
C9_Witness ==
    /\ API_KEY = None
    /\ pc = "panicked"
    /\ requests = <<>>

\* The pages decoded and converted so far.
ConvertedPages == {i \in 1..Len(responses) : Converted(responses[i])}

\* C10: at most one request is outstanding; the offset is page_size times the
\* number of converted pages, whatever they held; the n-th request asks for
\* pageSize = page_size and index = (n-1) * page_size.
C10_RequestSequence ==
    /\ Len(requests) \in {Len(responses), Len(responses) + 1}
    /\ pc = "awaiting" <=> Len(requests) = Len(responses) + 1
    /\ pc \in {"loop", "awaiting", "done"} => index = page_size * Cardinality(ConvertedPages)
    /\ \A n \in 1..Len(requests) :
            requests[n].uri =
                "https://api.curseforge.com/v1/mods/search?gameId=1&pageSize=50&index="
                    \o ToString((n - 1) * 50)
    /\ \A m, n \in 1..Len(requests) : m /= n => requests[m].uri /= requests[n].uri

\* C10 witness: two full pages were converted and the third request is out,
\* asking for the offset 100.
C10_Witness ==
    /\ pc = "awaiting"
    /\ Len(requests) = 3
    /\ index = 100
    /\ requests[3].uri =
            "https://api.curseforge.com/v1/mods/search?gameId=1&pageSize=50&index=100"

====
